---- MODULE Spec2Model ----
(***************************************************************************)
(* A model of ipmask (src/main.go), a command-line subnet calculator.  The *)
(* source file holds two programs: the IPv4-only program (lines 1-264) and *)
(* the dual-stack program (lines 266-615).  Both are modelled; where a     *)
(* function differs between the two, the dual-stack one carries the suffix *)
(* "Dual".                                                                 *)
(*                                                                         *)
(* Representation.  TLC integers are 32-bit signed, so program integers    *)
(* are held as follows:                                                    *)
(*   - a string is a sequence of one-character strings;                    *)
(*   - a []byte / net.IP is a sequence of 0..255 (big-endian);             *)
(*   - a uint32 or a 64-bit int is a bit vector (sequence of 0/1, most     *)
(*     significant bit first) of width 32 or 64, with Go's wrap-around;    *)
(*   - a *big.Int is [neg, mag]: a sign and a big-endian base-256          *)
(*     magnitude without leading zeros;                                    *)
(*   - a net.IPMask made by net.CIDRMask(ones, bits) is [ones, bits].      *)
(***************************************************************************)
EXTENDS Integers, Sequences, FiniteSets, TLC

\* ------------------------------------------------------------------ helpers

Min(a, b) == IF a < b THEN a ELSE b

Max(a, b) == IF a > b THEN a ELSE b

RECURSIVE Pow2(_)
\* 2^k for 0 <= k <= 30 (a TLC integer)
Pow2(k) == IF k = 0 THEN 1 ELSE 2 * Pow2(k - 1)

RECURSIVE Concat(_)
\* the concatenation of a sequence of sequences
Concat(ss) == IF ss = <<>> THEN <<>> ELSE Head(ss) \o Concat(Tail(ss))

Repeat(x, k) == [i \in 1..k |-> x]

\* ------------------------------------------------------------------ characters

DigitChars == <<"0", "1", "2", "3", "4", "5", "6", "7", "8", "9">>

HexChars == <<"0", "1", "2", "3", "4", "5", "6", "7", "8", "9", "a", "b", "c", "d", "e", "f">>

UpperHexChars == <<"0", "1", "2", "3", "4", "5", "6", "7", "8", "9", "A", "B", "C", "D", "E", "F">>

DigitVal(c) == (CHOOSE i \in 1..10 : DigitChars[i] = c) - 1

IsHexDigit(c) == \E i \in 1..16 : HexChars[i] = c \/ UpperHexChars[i] = c

HexVal(c) == (CHOOSE i \in 1..16 : HexChars[i] = c \/ UpperHexChars[i] = c) - 1

Contains(s, c) == \E i \in 1..Len(s) : s[i] = c

HasPrefix(s, p) == Len(s) >= Len(p) /\ SubSeq(s, 1, Len(p)) = p

\* the index of the first c in s, 0 when there is none
IndexByte(s, c) == IF Contains(s, c) THEN CHOOSE i \in 1..Len(s) : s[i] = c /\ \A j \in 1..(i - 1) : s[j] # c ELSE 0

RECURSIVE FmtDec(_)
\* fmt's %d of a non-negative machine integer
FmtDec(n) == IF n < 10 THEN <<DigitChars[n + 1]>> ELSE Append(FmtDec(n \div 10), DigitChars[(n % 10) + 1])

\* fmt's %x of a number below 16 / %02x of a byte
FmtHex2(b) == <<HexChars[(b \div 16) + 1], HexChars[(b % 16) + 1]>>

RECURSIVE FmtHex(_)
FmtHex(n) == IF n < 16 THEN <<HexChars[n + 1]>> ELSE Append(FmtHex(n \div 16), HexChars[(n % 16) + 1])

\* ------------------------------------------------------------------ bit vectors

BVZero(w) == [i \in 1..w |-> 0]

\* the constant 1 at width w
BVOne(w) == [i \in 1..w |-> IF i = w THEN 1 ELSE 0]

\* Go's <<: bits shifted out are lost, a count >= w gives 0 (s >= 0)
BVShl(v, s) == [i \in 1..Len(v) |-> IF i + s <= Len(v) THEN v[i + s] ELSE 0]

\* Go's >> on an unsigned value
BVShr(v, s) == [i \in 1..Len(v) |-> IF i - s >= 1 THEN v[i - s] ELSE 0]

\* Go's >> on a signed value: the sign bit is copied in
BVSar(v, s) == [i \in 1..Len(v) |-> IF i - s >= 1 THEN v[i - s] ELSE v[1]]

\* v - 1 with wrap-around: the bits from the lowest set bit down are flipped
BVDec(v) == LET k == IF \E i \in 1..Len(v) : v[i] = 1 THEN CHOOSE i \in 1..Len(v) : v[i] = 1 /\ \A j \in (i + 1)..Len(v) : v[j] = 0 ELSE 1
            IN [i \in 1..Len(v) |-> IF i < k THEN v[i] ELSE 1 - v[i]]

BVNot(v) == [i \in 1..Len(v) |-> 1 - v[i]]

RECURSIVE BVAddC(_, _, _, _)
\* bits 1..i of a + b, c (0 or 1) being the carry into bit i
BVAddC(a, b, i, c) == IF i = 0 THEN <<>>
                      ELSE IF a[i] + b[i] + c >= 2 THEN Append(BVAddC(a, b, i - 1, 1), a[i] + b[i] + c - 2)
                      ELSE Append(BVAddC(a, b, i - 1, 0), a[i] + b[i] + c)

\* a + b modulo 2^w
BVAdd(a, b) == BVAddC(a, b, Len(a), 0)

\* a - b modulo 2^w
BVSub(a, b) == BVAddC(a, BVNot(b), Len(a), 1)

\* unsigned a > b
BVGtU(a, b) == \E i \in 1..Len(a) : a[i] = 1 /\ b[i] = 0 /\ \A j \in 1..(i - 1) : a[j] = b[j]

\* signed (two's complement) a > b
BVGtS(a, b) == IF a[1] # b[1] THEN a[1] = 0 ELSE BVGtU(a, b)

\* conversion to a narrower unsigned type: the low w bits
BVTrunc(v, w) == SubSeq(v, Len(v) - w + 1, Len(v))

\* the value of a bit vector of at most 30 bits
BVVal(v) == LET RECURSIVE Val(_)
                Val(i) == IF i = 0 THEN 0 ELSE 2 * Val(i - 1) + v[i]
            IN Val(Len(v))

\* the w-bit vector of a machine integer n >= 0
BVOf(n, w) == [i \in 1..w |-> IF w - i > 30 THEN 0 ELSE (n \div Pow2(w - i)) % 2]

\* bits.OnesCount32
OnesCount(v) == LET RECURSIVE Cnt(_)
                    Cnt(i) == IF i = 0 THEN 0 ELSE Cnt(i - 1) + v[i]
                IN Cnt(Len(v))

\* the bits of a byte sequence and back
BitsOfBytes(bs) == [i \in 1..(8 * Len(bs)) |-> (bs[((i - 1) \div 8) + 1] \div Pow2(7 - ((i - 1) % 8))) % 2]

BytesOfBits(v) == [k \in 1..(Len(v) \div 8) |-> BVVal(SubSeq(v, 8 * k - 7, 8 * k))]

\* ------------------------------------------------------------------ math/big

RECURSIVE StripZeros(_)
StripZeros(bs) == IF bs # <<>> /\ Head(bs) = 0 THEN StripZeros(Tail(bs)) ELSE bs

PadLeft(bs, k) == Repeat(0, k - Len(bs)) \o bs

\* magnitudes: a > b, both without leading zeros
MagGt(a, b) == IF Len(a) # Len(b) THEN Len(a) > Len(b)
               ELSE \E i \in 1..Len(a) : a[i] > b[i] /\ \A j \in 1..(i - 1) : a[j] = b[j]

RECURSIVE MagAddC(_, _, _, _)
MagAddC(a, b, i, c) == IF i = 0 THEN <<c>> ELSE Append(MagAddC(a, b, i - 1, (a[i] + b[i] + c) \div 256), (a[i] + b[i] + c) % 256)

MagAdd(a, b) == LET k == Max(Len(a), Len(b))
                IN StripZeros(MagAddC(PadLeft(a, k), PadLeft(b, k), k, 0))

RECURSIVE MagSubC(_, _, _, _)
\* a - b for a >= b, given the borrow into byte i
MagSubC(a, b, i, c) == IF i = 0 THEN <<>> ELSE Append(MagSubC(a, b, i - 1, IF a[i] - b[i] - c < 0 THEN 1 ELSE 0), (a[i] - b[i] - c + 256) % 256)

MagSub(a, b) == LET k == Max(Len(a), Len(b))
                IN StripZeros(MagSubC(PadLeft(a, k), PadLeft(b, k), k, 0))

Big(neg, mag) == [neg |-> neg /\ mag # <<>>, mag |-> mag]

\* big.NewInt for a non-negative machine integer below 256
b(n) == Big(FALSE, StripZeros(<<n>>))

BigAdd(x, y) == IF x.neg = y.neg THEN Big(x.neg, MagAdd(x.mag, y.mag))
                ELSE IF MagGt(y.mag, x.mag) THEN Big(y.neg, MagSub(y.mag, x.mag))
                ELSE Big(x.neg, MagSub(x.mag, y.mag))

BigSub(x, y) == BigAdd(x, Big(~y.neg, y.mag))

\* x.Cmp(y): -1, 0 or 1
BigCmp(x, y) == IF x = y THEN 0
                ELSE IF x.neg # y.neg THEN (IF x.neg THEN -1 ELSE 1)
                ELSE IF MagGt(x.mag, y.mag) THEN (IF x.neg THEN -1 ELSE 1)
                ELSE (IF x.neg THEN 1 ELSE -1)

BigSign(x) == IF x.mag = <<>> THEN 0 ELSE IF x.neg THEN -1 ELSE 1

\* new(big.Int).Exp(2, k, nil) for k >= 0
BigExp2(k) == Big(FALSE, <<Pow2(k % 8)>> \o Repeat(0, k \div 8))

\* new(big.Int).SetBytes
BigSetBytes(bs) == Big(FALSE, StripZeros(bs))

RECURSIVE MagDivMod10(_, _, _)
\* <<quotient bytes, remainder>> of a magnitude divided by 10
MagDivMod10(a, i, r) == IF i > Len(a) THEN <<<<>>, r>>
                        ELSE LET cur == r * 256 + a[i]
                                 rest == MagDivMod10(a, i + 1, cur % 10)
                             IN <<<<cur \div 10>> \o rest[1], rest[2]>>

RECURSIVE MagString(_)
MagString(a) == IF a = <<>> THEN <<>>
                ELSE LET qr == MagDivMod10(a, 1, 0)
                     IN Append(MagString(StripZeros(qr[1])), DigitChars[qr[2] + 1])

\* (*big.Int).String
BigString(x) == IF x.mag = <<>> THEN <<"0">> ELSE (IF x.neg THEN <<"-">> ELSE <<>>) \o MagString(x.mag)

\* ------------------------------------------------------------------ strconv, fmt

DigitSet == {"0", "1", "2", "3", "4", "5", "6", "7", "8", "9"}

AllDigits(s) == \A i \in 1..Len(s) : s[i] \in DigitSet

RECURSIVE DigitsVal(_)
\* the value of a string of at most 9 decimal digits
DigitsVal(ds) == IF ds = <<>> THEN 0 ELSE 10 * DigitsVal(SubSeq(ds, 1, Len(ds) - 1)) + DigitVal(ds[Len(ds)])

RECURSIVE StripZeroChars(_)
StripZeroChars(ds) == IF ds # <<>> /\ Head(ds) = "0" THEN StripZeroChars(Tail(ds)) ELSE ds

MaxInt64Digits == <<"9", "2", "2", "3", "3", "7", "2", "0", "3", "6", "8", "5", "4", "7", "7", "5", "8", "0", "7">>

\* decimal strings of equal length: a > b
DecGt(a, c) == \E i \in 1..Len(a) : DigitVal(a[i]) > DigitVal(c[i]) /\ \A j \in 1..(i - 1) : a[j] = c[j]

\* strconv.Atoi on a 64-bit build: an optional sign, then decimal digits.  A value
\* that fits an int64 but not a TLC integer is returned as 999999999 with its sign
\* (every caller only compares it with bounds of at most 128).
Atoi(s) == LET signed == s # <<>> /\ s[1] \in {"+", "-"}
               ds == IF signed THEN Tail(s) ELSE s
               sig == StripZeroChars(ds)
               neg == signed /\ s[1] = "-"
               mag == IF Len(sig) <= 9 THEN DigitsVal(sig) ELSE 999999999
               tooBig == Len(sig) > 19 \/ (Len(sig) = 19 /\ DecGt(sig, MaxInt64Digits))
           IN IF ds = <<>> \/ ~AllDigits(ds) THEN [ok |-> FALSE, err |-> "invalid syntax"]
              ELSE IF tooBig THEN [ok |-> FALSE, err |-> "value out of range"]
              ELSE [ok |-> TRUE, n |-> IF neg THEN 0 - mag ELSE mag]

\* strconv.ParseUint(s, 10, 32) for the digit groups the regexp captures
ParseUintDec(s) == IF s = <<>> \/ ~AllDigits(s) THEN [ok |-> FALSE, err |-> "invalid syntax"]
                   ELSE IF Len(StripZeroChars(s)) > 9 THEN [ok |-> FALSE, err |-> "value out of range"]
                   ELSE [ok |-> TRUE, n |-> DigitsVal(StripZeroChars(s))]

\* strconv.ParseUint(s, 16, 32): hex digits only (no sign, prefix or underscore);
\* the value is returned as a 32-bit vector
ParseUintHex32(s) == IF s = <<>> \/ \E i \in 1..Len(s) : ~IsHexDigit(s[i]) THEN [ok |-> FALSE, err |-> "invalid syntax"]
                     ELSE IF Len(StripZeroChars(s)) > 8 THEN [ok |-> FALSE, err |-> "value out of range"]
                     ELSE LET t == StripZeroChars(s)
                              nib == Concat([i \in 1..Len(t) |-> BVOf(HexVal(t[i]), 4)])
                          IN [ok |-> TRUE, n |-> BVZero(32 - Len(nib)) \o nib]

\* ------------------------------------------------------------------ package net

\* net.CIDRMask(ones, bits); mask.Size() returns these two numbers back
CIDRMask(ones, bits) == [ones |-> ones, bits |-> bits]

\* the bytes of a mask
MaskBytes(mask) == [k \in 1..(mask.bits \div 8) |-> LET r == Max(0, Min(8, mask.ones - 8 * (k - 1))) IN 256 - Pow2(8 - r)]

\* IPMask.String: the mask's bytes in hex
MaskString(mask) == Concat([k \in 1..(mask.bits \div 8) |-> FmtHex2(MaskBytes(mask)[k])])

v4InV6Prefix == <<0, 0, 0, 0, 0, 0, 0, 0, 0, 0, 255, 255>>

\* net.IPv4(a, b, c, d): the 16-byte form
IPv4(a, c, d, e) == v4InV6Prefix \o <<a, c, d, e>>

\* ip.To4(): the 4-byte form, or nil (the empty sequence)
To4(ip) == IF Len(ip) = 4 THEN ip
           ELSE IF Len(ip) = 16 /\ SubSeq(ip, 1, 12) = v4InV6Prefix THEN SubSeq(ip, 13, 16)
           ELSE <<>>

\* ip.Mask(mask) for the operands ParseCIDR passes
IPMaskOf(ip, mask) == LET mb == MaskBytes(mask)
                          p == IF Len(mb) = 4 /\ Len(ip) = 16 /\ SubSeq(ip, 1, 12) = v4InV6Prefix THEN SubSeq(ip, 13, 16) ELSE ip
                      IN IF Len(p) # Len(mb) THEN <<>>
                         ELSE [k \in 1..Len(p) |-> BVVal([i \in 1..8 |-> BitsOfBytes(<<p[k]>>)[i] * BitsOfBytes(<<mb[k]>>)[i]])]

Dotted(o) == FmtDec(o[1]) \o <<".">> \o FmtDec(o[2]) \o <<".">> \o FmtDec(o[3]) \o <<".">> \o FmtDec(o[4])

\* the eight 16-bit groups of a 16-byte address (each as <<high byte, low byte>>)
Groups(ip) == [g \in 1..8 |-> <<ip[2 * g - 1], ip[2 * g]>>]

GroupHex(g) == IF g[1] = 0 THEN FmtHex(g[2]) ELSE FmtHex(g[1]) \o FmtHex2(g[2])

\* the longest run of zero groups, leftmost on a tie: <<start, length>>
ZeroRun(gs) == LET runLen(i) == LET ends == {j \in i..8 : \A k \in i..j : gs[k] = <<0, 0>>}
                                IN Cardinality(ends)
                   best == CHOOSE i \in 1..8 : \A j \in 1..8 : runLen(i) > runLen(j) \/ (runLen(i) = runLen(j) /\ i <= j)
               IN <<best, runLen(best)>>

RECURSIVE JoinGroups(_, _, _)
JoinGroups(gs, i, j) == IF i > j THEN <<>>
                        ELSE IF i = j THEN GroupHex(gs[i])
                        ELSE GroupHex(gs[i]) \o <<":">> \o JoinGroups(gs, i + 1, j)

\* ip.String()
IPString(ip) == IF Len(ip) = 0 THEN <<"<", "n", "i", "l", ">">>
                ELSE IF To4(ip) # <<>> THEN Dotted(To4(ip))
                ELSE IF Len(ip) # 16 THEN <<"?">> \o Concat([k \in 1..Len(ip) |-> FmtHex2(ip[k])])
                ELSE LET gs == Groups(ip)
                         zr == ZeroRun(gs)
                     IN IF zr[2] < 2 THEN JoinGroups(gs, 1, 8)
                        ELSE JoinGroups(gs, 1, zr[1] - 1) \o <<":", ":">> \o JoinGroups(gs, zr[1] + zr[2], 8)

RECURSIVE Split(_, _)
\* the fields of s between occurrences of sep
Split(s, sep) == LET i == IndexByte(s, sep)
                 IN IF i = 0 THEN <<s>> ELSE <<SubSeq(s, 1, i - 1)>> \o Split(SubSeq(s, i + 1, Len(s)), sep)

\* netip's parseIPv4Fields: exactly four fields, each 1..3 digits without a leading
\* zero and at most 255
ParseIPv4Fields(s) == LET fs == Split(s, ".")
                          good(f) == f # <<>> /\ AllDigits(f) /\ Len(f) <= 3 /\ (Len(f) > 1 => f[1] # "0") /\ DigitsVal(f) <= 255
                      IN IF Len(fs) = 4 /\ \A k \in 1..4 : good(fs[k])
                         THEN [ok |-> TRUE, bytes |-> [k \in 1..4 |-> DigitsVal(fs[k])]]
                         ELSE [ok |-> FALSE]

\* the number of leading hex digits of s
HexRun(s) == Cardinality({j \in 1..Len(s) : \A k \in 1..j : IsHexDigit(s[k])})

RECURSIVE V6Loop(_, _, _)
\* the group loop of netip's parseIPv6: s is the text left, ip the bytes parsed so
\* far, ell the byte offset of the "::" (-1: none).  Returns the bytes, the offset
\* and the text left over.
V6Loop(s, ip, ell) ==
    LET off == HexRun(s)
        i == Len(ip)
        h == [k \in 1..4 |-> IF k <= 4 - off THEN 0 ELSE HexVal(s[k - (4 - off)])]
        ip2 == ip \o <<16 * h[1] + h[2], 16 * h[3] + h[4]>>
        s1 == SubSeq(s, off + 1, Len(s))
        s2 == Tail(s1)
        dbl == s2[1] = ":"
        s3 == IF dbl THEN Tail(s2) ELSE s2
        ell2 == IF dbl THEN i + 2 ELSE ell
        v4 == ParseIPv4Fields(s)
    IN IF off = 0 \/ off > 4 THEN [ok |-> FALSE]
       ELSE IF off < Len(s) /\ s[off + 1] = "."
       THEN (IF (ell < 0 /\ i # 12) \/ i + 4 > 16 \/ ~v4.ok THEN [ok |-> FALSE]
             ELSE [ok |-> TRUE, ip |-> ip \o v4.bytes, ell |-> ell, rest |-> <<>>])
       ELSE IF s1 = <<>> THEN [ok |-> TRUE, ip |-> ip2, ell |-> ell, rest |-> <<>>]
       ELSE IF s1[1] # ":" \/ Len(s1) = 1 THEN [ok |-> FALSE]
       ELSE IF dbl /\ ell >= 0 THEN [ok |-> FALSE]
       ELSE IF s3 = <<>> \/ Len(ip2) >= 16 THEN [ok |-> TRUE, ip |-> ip2, ell |-> ell2, rest |-> s3]
       ELSE V6Loop(s3, ip2, ell2)

\* netip's parseIPv6 (zones are rejected by ParseCIDR)
ParseIPv6(s) ==
    LET lead == Len(s) >= 2 /\ s[1] = ":" /\ s[2] = ":"
        s0 == IF lead THEN SubSeq(s, 3, Len(s)) ELSE s
        r == V6Loop(s0, <<>>, IF lead THEN 0 ELSE -1)
    IN IF Contains(s, "%") THEN [ok |-> FALSE]
       ELSE IF lead /\ s0 = <<>> THEN [ok |-> TRUE, bytes |-> Repeat(0, 16)]
       ELSE IF ~r.ok \/ r.rest # <<>> THEN [ok |-> FALSE]
       ELSE IF Len(r.ip) < 16
       THEN (IF r.ell < 0 THEN [ok |-> FALSE]
             ELSE [ok |-> TRUE, bytes |-> SubSeq(r.ip, 1, r.ell) \o Repeat(0, 16 - Len(r.ip)) \o SubSeq(r.ip, r.ell + 1, Len(r.ip))])
       ELSE IF r.ell >= 0 THEN [ok |-> FALSE]
       ELSE [ok |-> TRUE, bytes |-> r.ip]

\* netip.ParseAddr: the first '.' or ':' decides the family.  Returns the 16-byte
\* form (As16) and the address's bit length.
ParseAddr(s) ==
    LET marks == {j \in 1..Len(s) : s[j] \in {".", ":", "%"}}
        first == CHOOSE j \in marks : \A k \in marks : j <= k
        r4 == ParseIPv4Fields(s)
        r6 == ParseIPv6(s)
    IN IF marks = {} THEN [ok |-> FALSE]
       ELSE IF s[first] = "." THEN (IF r4.ok THEN [ok |-> TRUE, as16 |-> v4InV6Prefix \o r4.bytes, bitLen |-> 32] ELSE [ok |-> FALSE])
       ELSE IF s[first] = ":" THEN (IF r6.ok THEN [ok |-> TRUE, as16 |-> r6.bytes, bitLen |-> 128] ELSE [ok |-> FALSE])
       ELSE [ok |-> FALSE]

\* ParseCIDR once the address part has been parsed to a
CIDROf(mask, a) ==
    LET sig == StripZeroChars(mask)
        n == IF Len(sig) <= 3 THEN DigitsVal(sig) ELSE 999
        m == CIDRMask(n, a.bitLen)
    IN IF ~a.ok THEN [ok |-> FALSE, err |-> "invalid CIDR address"]
       ELSE IF mask = <<>> \/ ~AllDigits(mask) \/ n > a.bitLen THEN [ok |-> FALSE, err |-> "invalid CIDR address"]
       ELSE [ok |-> TRUE, ip |-> a.as16, ipnet |-> [set |-> TRUE, IP |-> IPMaskOf(a.as16, m), Mask |-> m]]

\* net.ParseCIDR: address "/" decimal prefix length; the length is at most the
\* address's bit length
ParseCIDR(s) ==
    LET i == IndexByte(s, "/")
    IN IF i = 0 THEN [ok |-> FALSE, err |-> "invalid CIDR address"]
       ELSE CIDROf(SubSeq(s, i + 1, Len(s)), ParseAddr(SubSeq(s, 1, i - 1)))

\* ------------------------------------------------------------------ regexp

DigitRunAt(s, pos, l) == pos + l - 1 <= Len(s) /\ \A j \in pos..(pos + l - 1) : s[j] \in DigitSet

RECURSIVE CanMatch(_, _, _)
\* groups k..4 of (\d{1,3}).(\d{1,3}).(\d{1,3}).(\d{1,3}) match from pos on; the
\* unescaped "." between two groups matches any one character but a newline
CanMatch(s, k, pos) == \E l \in 1..3 : /\ DigitRunAt(s, pos, l)
                                       /\ \/ k = 4
                                          \/ (pos + l <= Len(s) /\ s[pos + l] # "\n" /\ CanMatch(s, k + 1, pos + l + 1))

RECURSIVE MatchFrom(_, _, _)
\* the groups of the preferred match: each \d{1,3} is greedy, so it takes the most
\* digits with which the rest still matches
MatchFrom(s, k, pos) ==
    LET fits(l) == /\ DigitRunAt(s, pos, l)
                   /\ \/ k = 4
                      \/ (pos + l <= Len(s) /\ s[pos + l] # "\n" /\ CanMatch(s, k + 1, pos + l + 1))
        l == CHOOSE x \in 1..3 : fits(x) /\ \A y \in (x + 1)..3 : ~fits(y)
    IN IF k = 4 THEN <<SubSeq(s, pos, pos + l - 1)>>
       ELSE <<SubSeq(s, pos, pos + l - 1)>> \o MatchFrom(s, k + 1, pos + l + 1)

\* var dottedQuad = regexp.MustCompile(...) with FindStringSubmatch: the leftmost
\* match anywhere in the input (the pattern is not anchored); <<>> when there is
\* none, else <<whole match, group 1, ..., group 4>> (only the groups are used)
dottedQuad(input) ==
    LET starts == {i \in 1..Len(input) : CanMatch(input, 1, i)}
        i == CHOOSE x \in starts : \A y \in starts : x <= y
    IN IF starts = {} THEN <<>> ELSE <<"match">> \o MatchFrom(input, 1, i)

\* ------------------------------------------------------------------ results

NoMask == [ones |-> 0 - 1, bits |-> 0]

Ok(mask) == [ok |-> TRUE, panic |-> FALSE, mask |-> mask, err |-> ""]

Err(e) == [ok |-> FALSE, panic |-> FALSE, mask |-> NoMask, err |-> e]

Panic(e) == [ok |-> FALSE, panic |-> TRUE, mask |-> NoMask, err |-> e]

ErrPrefix == "invalid prefix length"

ErrPrefixRange32 == "invalid prefix length (must be between 0 and 32)"

ErrPrefixRange128 == "invalid prefix length (must be between 0 and 128)"

ErrInterpret == "invalid netmask or inverse mask"

ErrMask == "%s is not a valid netmask or inverse mask"

ErrHexLen == "%s is not a valid netmask or inverse mask (hex values need 8 chars)"

ErrHexParse == "%s is not a valid netmask or inverse mask: %w"

PanicIndex == "panic: runtime error: index out of range [0] with length 0"

PanicShift == "panic: runtime error: negative shift amount"

PanicFill == "panic: math/big: buffer too small to fit value"

\* ------------------------------------------------------------------ functions common to both programs

\* the width of Go's int on the 64-bit builds the program is made for
IntSize == 64

\* a variant of interpretMask without the inverse-shape test: a wildcard mask is
\* refused.  The formula of claim C1 tells it from interpretMask.
interpretMaskNetmaskOnly(n) ==
    LET ones == OnesCount(n)
    IN IF BVShr(n, 32 - ones) = BVDec(BVShl(BVOne(32), ones)) THEN Ok(CIDRMask(ones, 32))
       ELSE Err(ErrInterpret)

\* func interpretMask(n uint32) (net.IPMask, error)
interpretMask(n) ==
    LET ones == OnesCount(n)
        lowOnes == BVDec(BVShl(BVOne(32), ones))
    IN IF BVShr(n, 32 - ones) = lowOnes THEN Ok(CIDRMask(ones, 32))
       ELSE IF n = lowOnes THEN Ok(CIDRMask(32 - ones, 32))
       ELSE Err(ErrInterpret)

\* func getNum(s string) uint64: panics when ParseUint fails
getNum(s) == LET r == ParseUintDec(s) IN [panic |-> ~r.ok, n |-> IF r.ok THEN r.n ELSE 0]

\* func parseMask(input string) (net.IPMask, error)
parseMask(input) ==
    LET match == dottedQuad(input)
        n1 == getNum(match[2])
        n2 == getNum(match[3])
        n3 == getNum(match[4])
        n4 == getNum(match[5])
        n == BitsOfBytes(<<n1.n, n2.n, n3.n, n4.n>>)
        r == interpretMask(n)
    IN IF Len(match) = 0 THEN Err(ErrMask)
       ELSE IF n1.panic \/ n2.panic \/ n3.panic \/ n4.panic THEN Panic("panic: strconv.ParseUint")
       ELSE IF n1.n > 255 \/ n2.n > 255 \/ n3.n > 255 \/ n4.n > 255 THEN Err(ErrMask)
       ELSE IF ~r.ok THEN Err(ErrMask)
       ELSE Ok(r.mask)

\* a variant of parseHex without the length test: "0xfff" is read as 0x00000fff.
\* The formula of claim C10 tells it from parseHex.
parseHexAnyLength(input) ==
    LET p == ParseUintHex32(SubSeq(input, 3, Len(input)))
        r == interpretMask(p.n)
    IN IF ~p.ok THEN Err(ErrHexParse)
       ELSE IF ~r.ok THEN Err(ErrMask)
       ELSE Ok(r.mask)

\* func parseHex(input string) (net.IPMask, error)
parseHex(input) ==
    LET p == ParseUintHex32(SubSeq(input, 3, Len(input)))
        r == interpretMask(p.n)
    IN IF Len(input) # 10 THEN Err(ErrHexLen)
       ELSE IF ~p.ok THEN Err(ErrHexParse)
       ELSE IF ~r.ok THEN Err(ErrMask)
       ELSE Ok(r.mask)

\* func prefix(mask net.IPMask) string
prefix(mask) == <<"/">> \o FmtDec(mask.ones)

\* Sprintf("%d.%d.%d.%d", (n>>24)&0xff, (n>>16)&0xff, (n>>8)&0xff, n&0xff) of an int
QuadOfInt(n) == Dotted([k \in 1..4 |-> BVVal(BVTrunc(BVSar(n, 8 * (4 - k)), 8))])

\* a variant of netmask that leaves the ones at the low end: n := (1 << ones) - 1.
\* The formula of claim C5 tells it from netmask.
netmaskUnshifted(mask) ==
    IF 32 - mask.ones < 0 THEN [panic |-> TRUE, str |-> <<>>]
    ELSE [panic |-> FALSE, str |-> QuadOfInt(BVDec(BVShl(BVOne(IntSize), mask.ones)))]

\* func netmask(mask net.IPMask) string: n := ((1 << ones) - 1) << (32 - ones);
\* a negative shift count is a run-time panic
netmask(mask) ==
    LET ones == mask.ones
        n == BVShl(BVDec(BVShl(BVOne(IntSize), ones)), 32 - ones)
    IN IF 32 - ones < 0 THEN [panic |-> TRUE, str |-> <<>>]
       ELSE [panic |-> FALSE, str |-> QuadOfInt(n)]

\* func inverse(mask net.IPMask) string: n := (1 << (32 - ones)) - 1
inverse(mask) ==
    LET ones == mask.ones
        n == BVDec(BVShl(BVOne(IntSize), 32 - ones))
    IN IF 32 - ones < 0 THEN [panic |-> TRUE, str |-> <<>>]
       ELSE [panic |-> FALSE, str |-> QuadOfInt(n)]

\* func reverse(s string) string
reverse(s) == [i \in 1..Len(s) |-> s[Len(s) + 1 - i]]

RECURSIVE chunk(_, _)
\* func chunk(s string, n int) []string
chunk(s, n) == IF s = <<>> THEN <<>>
               ELSE <<SubSeq(s, 1, Min(n, Len(s)))>> \o chunk(SubSeq(s, Min(n, Len(s)) + 1, Len(s)), n)

RECURSIVE Join(_, _)
\* strings.Join
Join(ss, sep) == IF ss = <<>> THEN <<>>
                 ELSE IF Len(ss) = 1 THEN ss[1]
                 ELSE ss[1] \o sep \o Join(Tail(ss), sep)

\* ------------------------------------------------------------------ the IPv4-only program

\* a variant of parsePrefixLength that clamps a length above 32 to 32.  The formula
\* of claim C6 tells it from parsePrefixLength.
parsePrefixLengthClamped(input) ==
    LET a == Atoi(Tail(input))
    IN IF Len(input) < 1 THEN Err(ErrPrefix)
       ELSE IF ~a.ok THEN Err(ErrPrefix)
       ELSE IF a.n < 0 THEN Err(ErrPrefixRange32)
       ELSE Ok(CIDRMask(IF a.n > 32 THEN 32 ELSE a.n, 32))

\* func parsePrefixLength(input string) (net.IPMask, error)
parsePrefixLength(input) ==
    LET a == Atoi(Tail(input))
    IN IF Len(input) < 1 THEN Err(ErrPrefix)
       ELSE IF ~a.ok THEN Err(ErrPrefix)
       ELSE IF a.n < 0 \/ a.n > 32 THEN Err(ErrPrefixRange32)
       ELSE Ok(CIDRMask(a.n, 32))

\* func maxint(a, b int) int
maxint(x, y) == IF BVGtS(x, y) THEN x ELSE y

\* a variant of total that saturates instead of wrapping: 1 << 32 is taken to be
\* 0xFFFFFFFF.  The formula of claim C2 tells it from total.
totalSaturating(mask) ==
    IF 32 - mask.ones < 0 THEN [panic |-> TRUE, n |-> BVZero(32)]
    ELSE IF 32 - mask.ones >= 32 THEN [panic |-> FALSE, n |-> BVNot(BVZero(32))]
    ELSE [panic |-> FALSE, n |-> BVShl(BVOne(32), 32 - mask.ones)]

\* func total(mask net.IPMask) uint32: the constant 1 is a uint32 here, so
\* 1 << 32 is 0
total(mask) == IF 32 - mask.ones < 0 THEN [panic |-> TRUE, n |-> BVZero(32)]
               ELSE [panic |-> FALSE, n |-> BVShl(BVOne(32), 32 - mask.ones)]

\* a variant of usable whose arithmetic is done in uint32: 1 - 2 wraps to
\* 0xFFFFFFFF and the comparison with 0 is unsigned.  The formula of claim C4 tells
\* it from usable.
usableUnsigned(mask) ==
    IF 32 - mask.ones < 0 THEN [panic |-> TRUE, n |-> BVZero(32)]
    ELSE [panic |-> FALSE, n |-> BVSub(BVShl(BVOne(32), 32 - mask.ones), BVOf(2, 32))]

\* func usable(mask net.IPMask) uint32: the arithmetic is done in int, the result
\* converted to uint32
usable(mask) ==
    IF 32 - mask.ones < 0 THEN [panic |-> TRUE, n |-> BVZero(32)]
    ELSE [panic |-> FALSE, n |-> BVTrunc(maxint(BVSub(BVShl(BVOne(IntSize), 32 - mask.ones), BVOf(2, IntSize)), BVZero(IntSize)), 32)]

\* func commas(n uint32) string: message.NewPrinter(language.English) groups the
\* decimal digits in threes
commas(n) == reverse(Join(chunk(reverse(BigString(BigSetBytes(BytesOfBits(n)))), 3), <<",">>))

\* func ipToUint(ip net.IP) uint32
ipToUint(ip) == IF To4(ip) = <<>> THEN BVZero(32) ELSE BitsOfBytes(To4(ip))

\* func uintToIP(n uint32) net.IP
uintToIP(n) == LET o == BytesOfBits(n) IN IPv4(o[1], o[2], o[3], o[4])

\* ------------------------------------------------------------------ the dual-stack program

\* func parsePrefixLength(input string) (net.IPMask, error); it also sets the
\* global ipv6, returned here as the field ipv6
parsePrefixLengthDual(input, ipv6) ==
    LET a == Atoi(Tail(input))
        v6 == ipv6 \/ a.n > 32
    IN IF Len(input) < 1 THEN [r |-> Err(ErrPrefix), ipv6 |-> ipv6]
       ELSE IF ~a.ok THEN [r |-> Err(ErrPrefix), ipv6 |-> ipv6]
       ELSE IF a.n < 0 \/ a.n > 128 THEN [r |-> Err(ErrPrefixRange128), ipv6 |-> ipv6]
       ELSE [r |-> Ok(CIDRMask(a.n, IF v6 THEN 128 ELSE 32)), ipv6 |-> v6]

\* func max(x, y *big.Int) *big.Int
max(x, y) == IF BigCmp(x, y) = 0 - 1 THEN y ELSE x

\* func total(mask net.IPMask) *big.Int
totalDual(mask) == BigExp2(mask.bits - mask.ones)

\* func usable(mask net.IPMask) *big.Int; reads the global ipv6
usableDual(mask, ipv6) == IF ipv6 THEN totalDual(mask) ELSE max(BigSub(totalDual(mask), b(2)), b(0))

\* func commas(n *big.Int) string
commasDual(n) == reverse(Join(chunk(reverse(BigString(n)), 3), <<",">>))

\* func ipToUint(ip net.IP) *big.Int
ipToUintDual(ip) == IF To4(ip) # <<>> THEN BigSetBytes(To4(ip)) ELSE BigSetBytes(ip)

\* func uintToIP(n *big.Int) net.IP; reads the global ipv6.  FillBytes panics when
\* the value does not fit the buffer.
uintToIPDual(n, ipv6) ==
    LET size == IF ipv6 THEN 16 ELSE 4
    IN IF Len(n.mag) > size THEN [panic |-> TRUE, ip |-> <<>>]
       ELSE [panic |-> FALSE, ip |-> PadLeft(n.mag, size)]

\* ------------------------------------------------------------------ func main: the argument switch

NoNet == [set |-> FALSE, IP |-> <<>>, Mask |-> NoMask]

\* which case of main's switch takes the input (the input is not empty)
Dispatch(input) == IF input[1] = "/" THEN "prefix"
                   ELSE IF Contains(input, "/") THEN "cidr"
                   ELSE IF Contains(input, ".") THEN "mask"
                   ELSE IF HasPrefix(input, <<"0", "x">>) THEN "hex"
                   ELSE "bare"

Parsed(r, ip, ipnet, ipv6) == [ok |-> r.ok, panic |-> r.panic, err |-> r.err, mask |-> r.mask, ip |-> ip, ipnet |-> ipnet, ipv6 |-> ipv6]

\* case strings.Contains(input, "/") of the IPv4-only main, c being what
\* net.ParseCIDR returned
cidrCase(c) == IF ~c.ok THEN Parsed(Err(c.err), <<>>, NoNet, FALSE)
               ELSE Parsed(Ok(c.ipnet.Mask), c.ip, c.ipnet, FALSE)

\* the switch of the IPv4-only main; string(input[0]) panics on an empty input
mainSwitch(input) ==
    LET form == Dispatch(input)
    IN IF Len(input) = 0 THEN Parsed(Panic(PanicIndex), <<>>, NoNet, FALSE)
       ELSE IF form = "prefix" THEN Parsed(parsePrefixLength(input), <<>>, NoNet, FALSE)
       ELSE IF form = "cidr" THEN cidrCase(ParseCIDR(input))
       ELSE IF form = "mask" THEN Parsed(parseMask(input), <<>>, NoNet, FALSE)
       ELSE IF form = "hex" THEN Parsed(parseHex(input), <<>>, NoNet, FALSE)
       ELSE Parsed(parsePrefixLength(<<"/">> \o input), <<>>, NoNet, FALSE)

\* the same case of the dual-stack main: an address that is not IPv4 sets ipv6
cidrCaseDual(c, ipv6) == IF ~c.ok THEN Parsed(Err(c.err), <<>>, NoNet, ipv6)
                         ELSE Parsed(Ok(c.ipnet.Mask), c.ip, c.ipnet, ipv6 \/ To4(c.ip) = <<>>)

\* the prefix-length cases of the dual-stack main, p being what parsePrefixLength
\* returned
prefixCaseDual(p) == Parsed(p.r, <<>>, NoNet, p.ipv6)

\* the switch of the dual-stack main; ipv6 is the global the -6 flag has set
mainSwitchDual(input, ipv6) ==
    LET form == Dispatch(input)
    IN IF Len(input) = 0 THEN Parsed(Panic(PanicIndex), <<>>, NoNet, ipv6)
       ELSE IF form = "prefix" THEN prefixCaseDual(parsePrefixLengthDual(input, ipv6))
       ELSE IF form = "cidr" THEN cidrCaseDual(ParseCIDR(input), ipv6)
       ELSE IF form = "mask" THEN Parsed(parseMask(input), <<>>, NoNet, ipv6)
       ELSE IF form = "hex" THEN Parsed(parseHex(input), <<>>, NoNet, ipv6)
       ELSE prefixCaseDual(parsePrefixLengthDual(<<"/">> \o input, ipv6))

\* ------------------------------------------------------------------ func main: the report

Line(f, v) == [f |-> f, v |-> v]

Blank == Line("", <<>>)

Rule == Line("------------------------------------------------", <<>>)

Header(ip, ipnet) == <<Blank, Rule, Line(IF ipnet.set THEN "TCP/IP NETWORK INFORMATION" ELSE "TCP/IP SUBNET MASK EQUIVALENTS", <<>>), Rule>>
                     \o (IF ip # <<>> THEN <<Line("IP Entered", IPString(ip))>> ELSE <<>>)

\* the lines the IPv4-only main prints before the range block; a panic in the
\* evaluation of a Printf argument ends the output before that line
maskLines(mask, ip, ipnet) ==
    LET head == Header(ip, ipnet) \o <<Line("CIDR", prefix(mask))>>
        nm == netmask(mask)
        inv == inverse(mask)
        us == usable(mask)
        l1 == head \o <<Line("Netmask", nm.str), Line("Netmask (hex)", <<"0", "x">> \o MaskString(mask))>>
        l2 == l1 \o <<Line("Wildcard Bits", inv.str)>>
    IN IF nm.panic THEN [panic |-> TRUE, lines |-> head]
       ELSE IF inv.panic THEN [panic |-> TRUE, lines |-> l1]
       ELSE IF ip # <<>> THEN [panic |-> FALSE, lines |-> l2]
       ELSE IF us.panic THEN [panic |-> TRUE, lines |-> l2]
       ELSE [panic |-> FALSE, lines |-> l2 \o <<Line("Usable IP Addresses", commas(us.n))>>]

\* the same lines of the dual-stack main
maskLinesDual(mask, ip, ipnet, ipv6) ==
    LET head == Header(ip, ipnet)
        nm == netmask(mask)
        inv == inverse(mask)
        l0 == head \o <<Line("CIDR", prefix(mask))>>
        l1 == l0 \o <<Line("Netmask", nm.str), Line("Netmask (hex)", <<"0", "x">> \o MaskString(mask))>>
        l2 == IF ipv6 THEN head \o <<Line("Prefix", prefix(mask))>> ELSE l1 \o <<Line("Wildcard Bits", inv.str)>>
    IN IF ~ipv6 /\ nm.panic THEN [panic |-> TRUE, lines |-> l0]
       ELSE IF ~ipv6 /\ inv.panic THEN [panic |-> TRUE, lines |-> l1]
       ELSE IF ip # <<>> THEN [panic |-> FALSE, lines |-> l2]
       ELSE [panic |-> FALSE, lines |-> l2 \o <<Line("Usable IP Addresses", commasDual(usableDual(mask, ipv6)))>>]

NoRange == [set |-> FALSE]

None == <<"<", "n", "o", "n", "e", ">">>

\* the range block of the IPv4-only main (if ipnet != nil { ... }); all of it is
\* uint32 arithmetic
rangeLines(mask, ipnet) ==
    LET n == ipToUint(ipnet.IP)
        t == total(ipnet.Mask)
        broadcast == BVSub(BVAdd(n, t.n), BVOne(32))
        first == BVAdd(n, BVOne(32))
        last == BVSub(broadcast, BVOne(32))
        some == BVGtU(BVSub(broadcast, n), BVOne(32))
        firstAddr == IF some THEN IPString(uintToIP(first)) ELSE None
        lastAddr == IF some THEN IPString(uintToIP(last)) ELSE None
        us == usable(mask)
        rng == [set |-> TRUE, n |-> n, broadcast |-> broadcast, first |-> first, last |-> last, firstAddr |-> firstAddr, lastAddr |-> lastAddr]
        l1 == <<Rule, Line("Network Address", IPString(ipnet.IP)), Line("Broadcast Address", IPString(uintToIP(broadcast)))>>
    IN IF ~ipnet.set THEN [panic |-> FALSE, lines |-> <<>>, rng |-> NoRange]
       ELSE IF t.panic THEN [panic |-> TRUE, lines |-> <<>>, rng |-> NoRange]
       ELSE IF us.panic THEN [panic |-> TRUE, lines |-> l1, rng |-> rng]
       ELSE [panic |-> FALSE, rng |-> rng,
             lines |-> l1 \o <<Line("Usable IP Addresses", commas(us.n)), Line("First Usable IP Address", firstAddr), Line("Last Usable IP Address", lastAddr)>>]

\* the range block of the dual-stack main; all of it is big.Int arithmetic
rangeLinesDual(mask, ipnet, ipv6) ==
    LET n == ipToUintDual(ipnet.IP)
        broadcast == BigSub(BigAdd(n, totalDual(ipnet.Mask)), b(1))
        first == BigAdd(n, b(1))
        last == BigSub(broadcast, b(1))
        size == BigSub(broadcast, n)
        some == BigSign(size) = 1
        fa == uintToIPDual(first, ipv6)
        la == uintToIPDual(last, ipv6)
        ba == uintToIPDual(broadcast, ipv6)
        firstAddr == IF some THEN IPString(fa.ip) ELSE None
        lastAddr == IF some THEN IPString(la.ip) ELSE None
        rng == [set |-> TRUE, n |-> n, broadcast |-> broadcast, first |-> first, last |-> last, firstAddr |-> firstAddr, lastAddr |-> lastAddr]
        l0 == <<Rule>> \o (IF ipv6 THEN <<>> ELSE <<Line("Network Address", IPString(ipnet.IP))>>)
        l1 == l0 \o (IF ipv6 THEN <<>> ELSE <<Line("Broadcast Address", IPString(ba.ip))>>)
    IN IF ~ipnet.set THEN [panic |-> FALSE, lines |-> <<>>, rng |-> NoRange]
       ELSE IF some /\ (fa.panic \/ la.panic) THEN [panic |-> TRUE, lines |-> <<>>, rng |-> NoRange]
       ELSE IF ~ipv6 /\ ba.panic THEN [panic |-> TRUE, lines |-> l0, rng |-> rng]
       ELSE [panic |-> FALSE, rng |-> rng,
             lines |-> l1 \o <<Line("Usable IP Addresses", commasDual(usableDual(mask, ipv6))), Line("First Usable IP Address", firstAddr), Line("Last Usable IP Address", lastAddr)>>]

\* ------------------------------------------------------------------ the inputs

\* prefix lengths tried as "/n" and as a bare "n"
MaxPrefixArg == 130

\* prefix lengths tried after an IPv4 address
MaxV4Prefix == 33

\* prefix lengths tried after an IPv6 address
MaxV6Prefix == 129

\* the octet with its r high bits set, r in 0..8
RunOctet == <<0, 128, 192, 224, 240, 248, 252, 254, 255>>

\* the netmask of prefix length p, and its complement, as four octets
NetmaskQuad(p) == [k \in 1..4 |-> RunOctet[Max(0, Min(8, p - 8 * (k - 1))) + 1]]

WildcardQuad(p) == [k \in 1..4 |-> 255 - NetmaskQuad(p)[k]]

SlashArg(n) == <<"/">> \o FmtDec(n)

BareArg(n) == FmtDec(n)

HexArg(q) == <<"0", "x">> \o Concat([k \in 1..4 |-> FmtHex2(q[k])])

UpperHexArg(q) == <<"0", "x">> \o Concat([k \in 1..4 |-> <<UpperHexChars[(q[k] \div 16) + 1], UpperHexChars[(q[k] % 16) + 1]>>])

CidrArg(addr, n) == addr \o <<"/">> \o FmtDec(n)

JunkPrefixInputs == {<<"/">>, <<"/", "x">>, <<"/", "-", "1">>, <<"/", "-", "0">>, <<"/", "+", "8">>, <<"/", "0", "8">>, <<"/", "1", "x">>, <<"/", " ", "8">>, <<"x">>, <<"1", "x">>, <<"+", "8">>, <<"/", "9", "9", "9", "9", "9", "9", "9", "9", "9", "9", "9", "9", "9", "9", "9", "9", "9", "9", "9", "9">>, <<"/", "9", "2", "2", "3", "3", "7", "2", "0", "3", "6", "8", "5", "4", "7", "7", "5", "8", "0", "7">>, <<"/", "4", "2", "9", "4", "9", "6", "7", "2", "9", "6">>}

PrefixInputs == {SlashArg(n) : n \in 0..MaxPrefixArg} \cup {BareArg(n) : n \in 0..MaxPrefixArg} \cup JunkPrefixInputs

AddrOctets == {0, 255}

V4Addrs == {<<o1, o2, o3, o4>> : o1 \in AddrOctets, o2 \in AddrOctets, o3 \in AddrOctets, o4 \in AddrOctets}
           \cup {<<192, 168, 1, 0>>, <<192, 168, 1, 77>>, <<10, 0, 0, 0>>, <<10, 20, 30, 40>>, <<173, 173, 173, 173>>, <<127, 255, 255, 254>>}

V4CidrInputs == {CidrArg(Dotted(a), n) : a \in V4Addrs, n \in 0..MaxV4Prefix}

V6Addrs == {<<":", ":">>, <<":", ":", "1">>, <<"2", "0", "0", "1", ":", "d", "b", "8", ":", ":">>, <<"2", "0", "0", "1", ":", "d", "b", "8", ":", ":", "1">>, <<"f", "e", "8", "0", ":", ":", "1", ":", "2">>, <<"1", ":", "2", ":", "3", ":", "4", ":", "5", ":", "6", ":", "7", ":", "8">>, <<"f", "f", "f", "f", ":", "f", "f", "f", "f", ":", "f", "f", "f", "f", ":", "f", "f", "f", "f", ":", "f", "f", "f", "f", ":", "f", "f", "f", "f", ":", "f", "f", "f", "f", ":", "f", "f", "f", "f">>, <<":", ":", "f", "f", "f", "f", ":", "1", "0", ".", "0", ".", "0", ".", "1">>, <<":", ":", "f", "f", "f", "f", ":", "1", "9", "2", ".", "1", "6", "8", ".", "1", ".", "7", "7">>}

V6CidrInputs == {CidrArg(a, n) : a \in V6Addrs, n \in 0..MaxV6Prefix}

BadCidrInputs == {<<"1", ":", ":", "2", ":", ":", "3", "/", "0">>, <<":", "/", "0">>, <<"1", "0", ".", "0", ".", "0", ".", "0", "/">>, <<"1", "0", ".", "0", ".", "0", "/", "8">>, <<"1", "0", ".", "0", ".", "0", ".", "0", "/", "x">>, <<"1", "0", ".", "0", ".", "0", ".", "2", "5", "6", "/", "8">>, <<"/", "8", "/", "8">>, <<"1", "0", ".", "0", ".", "0", ".", "0", "/", "+", "8">>, <<"1", ":", "2", ":", "3", ":", "4", ":", "5", ":", "6", ":", "7", ":", "8", ":", "9", "/", "0">>, <<"1", "2", "3", "4", "5", ":", ":", "/", "0">>, <<":", ":", "1", "%", "e", "t", "h", "0", "/", "6", "4">>}

MaskQuads == {NetmaskQuad(p) : p \in 0..32} \cup {WildcardQuad(p) : p \in 0..32}

\* the text of an octet as typed: 999 and 256 are out of range
OctetTexts == {<<"0">>, <<"1">>, <<"1", "2", "8">>, <<"2", "5", "5">>, <<"2", "5", "6">>, <<"9", "9", "9">>}

\* a valid dotted mask with the second separator replaced by c
WithSeparator(q, c) == FmtDec(q[1]) \o <<".">> \o FmtDec(q[2]) \o <<c>> \o FmtDec(q[3]) \o <<".">> \o FmtDec(q[4])

BadMaskInputs == {<<"1", ".", "2", ".", "3">>, <<"2", "5", "5", ".", "2", "5", "5", ".", "2", "5", "5">>, <<"0", ".", "0", "0", "0", ".", "0">>, <<"1", ".", "2", ".", "3", ".", "4", ".", "5">>, <<".">>, <<".", ".", ".">>, <<"a", ".", "b", ".", "c", ".", "d">>, <<"2", "5", "5", ".", "2", "5", "5", ".", "2", "5", "5", ".">>, <<"1", "2", "3", "4", ".", "0", ".", "0", ".", "0">>, <<"0", "2", "5", "5", ".", "2", "5", "5", ".", "2", "5", "5", ".", "0">>, <<"2", "5", "5", ".", "2", "5", "5", ".", "2", "5", "5", ".", "0", "0", "0", "0">>, <<"2", "5", "5", " ", "2", "5", "5", ".", "2", "5", "5", ".", "0">>, <<"0", "x", ".", "f", "f", "f", "f", "f", "f">>, <<"1", ".", "1">>}

MaskInputs == {Dotted(q) : q \in MaskQuads}
              \cup {t1 \o <<".">> \o t2 \o <<".">> \o t3 \o <<".">> \o t4 : t1 \in OctetTexts, t2 \in OctetTexts, t3 \in OctetTexts, t4 \in OctetTexts}
              \cup {Dotted(q) \o <<".", "0">> : q \in MaskQuads}
              \cup {Dotted(q) \o <<"x">> : q \in MaskQuads}
              \cup {<<"x">> \o Dotted(q) : q \in MaskQuads}
              \cup {WithSeparator(q, c) : q \in MaskQuads, c \in {"x", ":", "-"}}
              \cup BadMaskInputs

BadHexInputs == {<<"0", "x">>, <<"0", "x", "f", "f", "f">>, <<"0", "x", "f", "f", "f", "f", "f", "f", "0", "0", "0">>, <<"0", "x", "f", "f", "f", "f", "f", "f", "f", "g">>, <<"0", "x", "f", "f", "0", "0", "f", "f", "0", "0">>, <<"0", "x", "+", "f", "f", "f", "f", "f", "0", "0">>, <<"0", "x", "0", "0", "0", "0", "0", "0", "0", "_">>, <<"0", "X", "0", "0", "0", "0", "0", "0", "0", "0">>, <<"0", "x", "f", "f", "f", "f", "f", "f", "0">>}

HexInputs == {HexArg(q) : q \in MaskQuads} \cup {UpperHexArg(q) : q \in MaskQuads} \cup BadHexInputs

Inputs == {<<>>} \cup PrefixInputs \cup V4CidrInputs \cup V6CidrInputs \cup BadCidrInputs \cup MaskInputs \cup HexInputs

\* the command lines: <<program, -6 given>>
Programs == {<<"ipv4only", FALSE>>, <<"dualstack", FALSE>>, <<"dualstack", TRUE>>}

\* the 32-bit patterns given to interpretMask: every netmask and every wildcard
\* mask, each of them with one bit flipped, and every pattern made of the octets
\* below (all zeros, all ones, one high or low bit set or clear, alternating bits)
PatternOctets == {0, 255, 128, 1, 254, 127, 85, 170}

FlipBit(v, i) == [j \in 1..Len(v) |-> IF j = i THEN 1 - v[j] ELSE v[j]]

MaskWords == {BitsOfBytes(q) : q \in MaskQuads}

Words == MaskWords
         \cup {FlipBit(v, i) : v \in MaskWords, i \in 1..32}
         \cup {BitsOfBytes(<<o1, o2, o3, o4>>) : o1 \in PatternOctets, o2 \in PatternOctets, o3 \in PatternOctets, o4 \in PatternOctets}

\* ------------------------------------------------------------------ state

VARIABLES
    program,   \* which of the two programs runs: "ipv4only" or "dualstack"
    six,       \* whether -6 was given (dual-stack program only)
    input,     \* os.Args[1] / flag.Arg(0)
    ipv6,      \* the global "var ipv6" of the dual-stack program
    mask,      \* main's "var mask net.IPMask"
    ip,        \* main's "var ip net.IP" (<<>>: nil)
    ipnet,     \* main's "var ipnet *net.IPNet" (set = FALSE: nil)
    rng,       \* the locals of main's range block: n, broadcast, first, last, ...
    stdout,    \* the lines printed so far
    stderr,    \* the diagnostic written by log.Fatal, or the panic message
    exit,      \* the exit code, -1 while the program runs
    pc,        \* where main is: "switch", "report", "range", "exited", "panicked"
    word,      \* the uint32 handed to interpretMask (function runs)
    interp,    \* what interpretMask(word) returned
    parsed,    \* what parseMask returned for word written as a dotted quad
    shown,     \* netmask(), inverse() and prefix() of the mask
    again,     \* what parseMask returns for the strings in shown, and
               \* interpretMask for the complement of word
    step       \* where a function run is

mainVars == <<program, six, input, ipv6, mask, ip, ipnet, rng, stdout, stderr, exit, pc>>

fnVars == <<word, interp, parsed, shown, again, step>>

vars == <<program, six, input, ipv6, mask, ip, ipnet, rng, stdout, stderr, exit, pc, word, interp, parsed, shown, again, step>>

NoShown == [netmask |-> <<>>, inverse |-> <<>>, prefix |-> <<>>]

NoAgain == [netmask |-> Err(""), inverse |-> Err(""), complement |-> Err("")]

FnIdle == /\ word = <<>>
          /\ interp = Err("")
          /\ parsed = Err("")
          /\ shown = NoShown
          /\ again = NoAgain
          /\ step = "idle"

MainIdle == /\ program = "none"
            /\ six = FALSE
            /\ input = <<>>
            /\ ipv6 = FALSE
            /\ mask = NoMask
            /\ ip = <<>>
            /\ ipnet = NoNet
            /\ rng = NoRange
            /\ stdout = <<>>
            /\ stderr = <<>>
            /\ exit = 0 - 1
            /\ pc = "idle"

\* ------------------------------------------------------------------ the programs

\* one invocation: a program, its flag and its one argument
Init == /\ \E c \in Programs : program = c[1] /\ six = c[2] /\ ipv6 = c[2]
        /\ input \in Inputs
        /\ mask = NoMask
        /\ ip = <<>>
        /\ ipnet = NoNet
        /\ rng = NoRange
        /\ stdout = <<>>
        /\ stderr = <<>>
        /\ exit = 0 - 1
        /\ pc = "switch"
        /\ FnIdle

\* main up to the end of its switch: the argument is parsed, or log.Fatal ends the
\* run with exit code 1, or the run panics (exit code 2)
MainSwitch ==
    /\ pc = "switch"
    /\ \E r \in {IF program = "ipv4only" THEN mainSwitch(input) ELSE mainSwitchDual(input, ipv6)} :
          /\ mask' = r.mask
          /\ ip' = r.ip
          /\ ipnet' = r.ipnet
          /\ ipv6' = r.ipv6
          /\ stderr' = IF r.ok THEN <<>> ELSE <<r.err>>
          /\ exit' = IF r.panic THEN 2 ELSE IF r.ok THEN 0 - 1 ELSE 1
          /\ pc' = IF r.panic THEN "panicked" ELSE IF r.ok THEN "report" ELSE "exited"
    /\ UNCHANGED <<program, six, input, rng, stdout>>
    /\ UNCHANGED fnVars

\* main from the first Println to the range block: the header and the mask's fields
MainReport ==
    /\ pc = "report"
    /\ \E m \in {IF program = "ipv4only" THEN maskLines(mask, ip, ipnet) ELSE maskLinesDual(mask, ip, ipnet, ipv6)} :
          /\ stdout' = stdout \o m.lines
          /\ stderr' = IF m.panic THEN <<PanicShift>> ELSE stderr
          /\ exit' = IF m.panic THEN 2 ELSE exit
          /\ pc' = IF m.panic THEN "panicked" ELSE "range"
    /\ UNCHANGED <<program, six, input, ipv6, mask, ip, ipnet, rng>>
    /\ UNCHANGED fnVars

\* main's range block, the closing Println and the return from main
MainRange ==
    /\ pc = "range"
    /\ \E r \in {IF program = "ipv4only" THEN rangeLines(mask, ipnet) ELSE rangeLinesDual(mask, ipnet, ipv6)} :
          /\ rng' = r.rng
          /\ stdout' = stdout \o r.lines \o (IF r.panic THEN <<>> ELSE <<Blank>>)
          /\ stderr' = IF r.panic THEN <<IF program = "ipv4only" THEN PanicShift ELSE PanicFill>> ELSE stderr
          /\ exit' = IF r.panic THEN 2 ELSE 0
          /\ pc' = IF r.panic THEN "panicked" ELSE "exited"
    /\ UNCHANGED <<program, six, input, ipv6, mask, ip, ipnet>>
    /\ UNCHANGED fnVars

Next == MainSwitch \/ MainReport \/ MainRange

Spec == Init /\ [][Next]_vars

\* ------------------------------------------------------------------ the mask functions on their own

\* a uint32 is drawn and interpretMask, parseMask, netmask and inverse applied to it
InitMask == /\ word \in Words
            /\ interp = Err("")
            /\ parsed = Err("")
            /\ shown = NoShown
            /\ again = NoAgain
            /\ step = "start"
            /\ MainIdle

Interpret ==
    /\ step = "start"
    /\ interp' = interpretMask(word)
    /\ step' = "interpreted"
    /\ UNCHANGED <<word, parsed, shown, again>>
    /\ UNCHANGED mainVars

ParseDotted ==
    /\ step = "interpreted"
    /\ parsed' = parseMask(Dotted(BytesOfBits(word)))
    /\ step' = "parsed"
    /\ UNCHANGED <<word, interp, shown, again>>
    /\ UNCHANGED mainVars

Render ==
    /\ step = "parsed"
    /\ parsed.ok
    /\ shown' = [netmask |-> netmask(parsed.mask).str, inverse |-> inverse(parsed.mask).str, prefix |-> prefix(parsed.mask)]
    /\ step' = "rendered"
    /\ UNCHANGED <<word, interp, parsed, again>>
    /\ UNCHANGED mainVars

Reparse ==
    /\ step = "rendered"
    /\ again' = [netmask |-> parseMask(shown.netmask), inverse |-> parseMask(shown.inverse), complement |-> interpretMask(BVNot(word))]
    /\ step' = "reparsed"
    /\ UNCHANGED <<word, interp, parsed, shown>>
    /\ UNCHANGED mainVars

NextMask == Interpret \/ ParseDotted \/ Render \/ Reparse

SpecMask == InitMask /\ [][NextMask]_vars

\* ------------------------------------------------------------------ what the claims speak of

\* the bits of v are k ones from the high end (a netmask) / from the low end (a
\* wildcard mask), and zeros elsewhere
HighRun(v, k) == \A i \in 1..32 : v[i] = (IF i <= k THEN 1 ELSE 0)

LowRun(v, k) == \A i \in 1..32 : v[i] = (IF i > 32 - k THEN 1 ELSE 0)

\* the number of set bits of v
Popcount(v) == Cardinality({i \in 1..Len(v) : v[i] = 1})

\* the netmask of prefix length p as a 32-bit word
NetmaskWord(p) == [i \in 1..32 |-> IF i <= p THEN 1 ELSE 0]

\* the value printed for the field f of the report, <<"?">> when it was not printed
Field(f) == IF \E i \in 1..Len(stdout) : stdout[i].f = f
            THEN stdout[CHOOSE i \in 1..Len(stdout) : stdout[i].f = f].v
            ELSE <<"?">>

RECURSIVE ScaleDec(_, _, _)
\* m times a decimal number plus a carry; the digits are numbers, lowest first
ScaleDec(ds, m, carry) == IF ds = <<>> THEN (IF carry = 0 THEN <<>> ELSE <<carry % 10>> \o ScaleDec(<<>>, m, carry \div 10))
                          ELSE <<(m * ds[1] + carry) % 10>> \o ScaleDec(Tail(ds), m, (m * ds[1] + carry) \div 10)

RECURSIVE Pow2Dec(_)
\* the decimal digits of 2^k, lowest first
Pow2Dec(k) == IF k < 10 THEN ScaleDec(<<1>>, Pow2(k), 0) ELSE ScaleDec(Pow2Dec(k - 10), 1024, 0)

\* decimal digits, lowest first, written as text with the digits in threes
DecText(ds) == [i \in 1..Len(ds) |-> DigitChars[ds[Len(ds) + 1 - i] + 1]]

Grouped(t) == Concat([i \in 1..Len(t) |-> IF i > 1 /\ (Len(t) - i + 1) % 3 = 0 THEN <<",", t[i]>> ELSE <<t[i]>>])

\* max(2^(32-p) - 2, 0) and 2^(128-p) as the report writes them; 2^h is even for
\* h >= 1, so 2 is taken from its last digit without a borrow
UsableV4Text(p) == IF 32 - p <= 1 THEN <<"0">> ELSE Grouped(DecText([Pow2Dec(32 - p) EXCEPT ![1] = @ - 2]))

UsableV6Text(p) == Grouped(DecText(Pow2Dec(128 - p)))

\* a/p: the address a with its host bits cleared / set
NetworkBits(a, p) == [i \in 1..32 |-> IF i <= p THEN BitsOfBytes(a)[i] ELSE 0]

BroadcastBits(a, p) == [i \in 1..32 |-> IF i <= p THEN BitsOfBytes(a)[i] ELSE 1]

\* a 32-bit number as the running program holds it: a uint32, or a *big.Int
AsNumber(v) == IF program = "ipv4only" THEN v ELSE [neg |-> FALSE, mag |-> StripZeros(BytesOfBits(v))]

\* unsigned u <= v on 32-bit words
WordLe(u, v) == u = v \/ \E i \in 1..32 : u[i] = 0 /\ v[i] = 1 /\ \A j \in 1..(i - 1) : u[j] = v[j]

\* ds is a decimal numeral of n (leading zeros allowed); s denotes the non-negative
\* integer n (a sign allowed, as in "+8" and "-0")
Numeral(ds, n) == Len(ds) >= Len(FmtDec(n)) /\ ds = Repeat("0", Len(ds) - Len(FmtDec(n))) \o FmtDec(n)

Denotes(s, n) == \/ Numeral(s, n)
                 \/ s # <<>> /\ s[1] = "+" /\ Numeral(Tail(s), n)
                 \/ s # <<>> /\ s[1] = "-" /\ n = 0 /\ Numeral(Tail(s), 0)

\* the argument is of the prefix-length form, "/s" or a bare s, and s itself
PrefixArg == input # <<>> /\ (input[1] = "/" \/ (~Contains(input, "/") /\ ~Contains(input, ".") /\ ~HasPrefix(input, <<"0", "x">>)))

PrefixText == IF input[1] = "/" THEN Tail(input) ELSE input

\* the argument is of the dotted-quad mask form / the hex mask form
MaskArg == input # <<>> /\ input[1] # "/" /\ ~Contains(input, "/") /\ Contains(input, ".")

HexMaskArg == input # <<>> /\ ~Contains(input, "/") /\ ~Contains(input, ".") /\ HasPrefix(input, <<"0", "x">>)

\* the argument is a CIDR whose address is a dotted IPv4 address
V4CidrArg == input # <<>> /\ input[1] # "/" /\ Contains(input, "/") /\ Contains(input, ".") /\ ~Contains(input, ":")

\* s is exactly four decimal groups, each in 0..255, with a "." between them
StrictQuad(s) ==
    LET dots == {i \in 1..Len(s) : s[i] = "."}
        d1 == CHOOSE i \in dots : \A j \in dots : i <= j
        d3 == CHOOSE i \in dots : \A j \in dots : i >= j
        d2 == CHOOSE i \in dots : i # d1 /\ i # d3
        octet(g) == \E n \in 0..255 : Numeral(g, n)
    IN /\ Cardinality(dots) = 3
       /\ octet(SubSeq(s, 1, d1 - 1))
       /\ octet(SubSeq(s, d1 + 1, d2 - 1))
       /\ octet(SubSeq(s, d2 + 1, d3 - 1))
       /\ octet(SubSeq(s, d3 + 1, Len(s)))

\* the run ended with the whole report printed and exit code 0 / with one line of
\* diagnostic, nothing printed and exit code 1
ReportedAll == pc = "exited" /\ exit = 0 /\ stderr = <<>> /\ Len(stdout) >= 2 /\ stdout[Len(stdout)] = Blank

Refused == pc = "exited" /\ exit = 1 /\ Len(stderr) = 1 /\ stdout = <<>>

\* the whole report of a mask of prefix length p given without an address
MaskReport(p) == <<Blank, Rule, Line("TCP/IP SUBNET MASK EQUIVALENTS", <<>>), Rule,
                   Line("CIDR", <<"/">> \o FmtDec(p)),
                   Line("Netmask", Dotted(NetmaskQuad(p))),
                   Line("Netmask (hex)", HexArg(NetmaskQuad(p))),
                   Line("Wildcard Bits", Dotted(WildcardQuad(p))),
                   Line("Usable IP Addresses", UsableV4Text(p)),
                   Blank>>

\* ------------------------------------------------------------------ the claims

\* C1: for every 32-bit n with k set bits, interpretMask(n) is the mask /k when
\* the top k bits of n are ones, else the mask /(32-k) when n = 2^k - 1, else the
\* error; so it succeeds exactly on the words whose ones are contiguous from the
\* high or the low end, 0 gives /0 and 0xFFFFFFFF gives /32.
C1_InterpretMaskContract ==
    step # "start" =>
        LET k == Popcount(word)
        IN /\ interp = (IF HighRun(word, k) THEN Ok(CIDRMask(k, 32))
                        ELSE IF LowRun(word, k) THEN Ok(CIDRMask(32 - k, 32))
                        ELSE Err(ErrInterpret))
           /\ interp.ok <=> \E j \in 0..32 : HighRun(word, j) \/ LowRun(word, j)
           /\ word = BitsOfBytes(<<255, 0, 255, 0>>) => ~interp.ok
           /\ word = BitsOfBytes(<<85, 85, 85, 85>>) => ~interp.ok
           /\ word = BitsOfBytes(<<0, 0, 0, 0>>) => interp = Ok(CIDRMask(0, 32))
           /\ word = BitsOfBytes(<<255, 255, 255, 255>>) => interp = Ok(CIDRMask(32, 32))

\* C1's case: the wildcard mask 0.0.0.255 has been interpreted as /24
C1_WildcardAccepted ==
    /\ step = "interpreted"
    /\ word = BitsOfBytes(<<0, 0, 0, 255>>)
    /\ interp = Ok(CIDRMask(24, 32))

\* C2: for an IPv4 CIDR a/p with p <= 30 the range block computes the network
\* (a with its host bits cleared), the broadcast address (host bits set), the
\* first usable address (network + 1) and the last one (broadcast - 1) without
\* wrap-around, in this order, and without -6 prints them as dotted quads.
C2_RangeArithmetic ==
    (pc \in {"exited", "panicked"} /\ V4CidrArg) =>
        \A a \in V4Addrs : HasPrefix(input, Dotted(a) \o <<"/">>) =>
            \A p \in 0..30 : input = CidrArg(Dotted(a), p) =>
                LET network == NetworkBits(a, p)
                    broadcast == BroadcastBits(a, p)
                    first == [network EXCEPT ![32] = 1]
                    last == [broadcast EXCEPT ![32] = 0]
                IN /\ ReportedAll
                   /\ rng.set
                   /\ rng.n = AsNumber(network)
                   /\ rng.broadcast = AsNumber(broadcast)
                   /\ rng.first = AsNumber(first)
                   /\ rng.last = AsNumber(last)
                   /\ WordLe(network, first) /\ WordLe(first, last) /\ WordLe(last, broadcast)
                   /\ network # first /\ last # broadcast
                   /\ ~six => /\ Field("Network Address") = Dotted(BytesOfBits(network))
                              /\ Field("Broadcast Address") = Dotted(BytesOfBits(broadcast))
                              /\ Field("First Usable IP Address") = Dotted(BytesOfBits(first))
                              /\ Field("Last Usable IP Address") = Dotted(BytesOfBits(last))

\* C2's case: the IPv4-only program has reported 192.168.1.0/24
C2_Slash24Reported ==
    /\ program = "ipv4only"
    /\ input = <<"1", "9", "2", ".", "1", "6", "8", ".", "1", ".", "0", "/", "2", "4">>
    /\ pc = "exited"
    /\ Field("Network Address") = <<"1", "9", "2", ".", "1", "6", "8", ".", "1", ".", "0">>
    /\ Field("Broadcast Address") = <<"1", "9", "2", ".", "1", "6", "8", ".", "1", ".", "2", "5", "5">>
    /\ Field("First Usable IP Address") = <<"1", "9", "2", ".", "1", "6", "8", ".", "1", ".", "1">>
    /\ Field("Last Usable IP Address") = <<"1", "9", "2", ".", "1", "6", "8", ".", "1", ".", "2", "5", "4">>

\* C3, for the IPv4 CIDR arguments it names: in both programs a block of prefix
\* 31 or 32 (broadcast - N <= 1) is reported with "<none>" for the first and the
\* last usable address and a usable count of 0.
C3_DegenerateRangeSentinel ==
    (ReportedAll /\ V4CidrArg /\ ~six /\ mask.bits = 32 /\ mask.ones >= 31) =>
        /\ Field("First Usable IP Address") = None
        /\ Field("Last Usable IP Address") = None
        /\ Field("Usable IP Addresses") = <<"0">>

\* where C3 fails: the dual-stack program reports 10.0.0.0/31 with a first usable
\* address above the last one
C3_Slash31Addresses ==
    /\ program = "dualstack"
    /\ ~six
    /\ input = <<"1", "0", ".", "0", ".", "0", ".", "0", "/", "3", "1">>
    /\ pc = "exited"
    /\ exit = 0
    /\ Field("First Usable IP Address") = <<"1", "0", ".", "0", ".", "0", ".", "1">>
    /\ Field("Last Usable IP Address") = <<"1", "0", ".", "0", ".", "0", ".", "0">>

\* C4: the usable count of a complete report is exact: max(2^(32-p) - 2, 0) for
\* an IPv4 mask /p (p in 0..32) and 2^(128-p) for an IPv6 mask /p (p in 0..128),
\* so 2, 0, 0 and 4,294,967,294 for IPv4 /30, /31, /32 and /0, and 2^128 for
\* IPv6 /0.
C4_UsableExact ==
    ReportedAll =>
        /\ (~ipv6 /\ mask.bits = 32) =>
              /\ mask.ones \in 0..32
              /\ Field("Usable IP Addresses") = UsableV4Text(mask.ones)
              /\ mask.ones = 30 => Field("Usable IP Addresses") = <<"2">>
              /\ mask.ones \in {31, 32} => Field("Usable IP Addresses") = <<"0">>
              /\ mask.ones = 0 => Field("Usable IP Addresses") = <<"4", ",", "2", "9", "4", ",", "9", "6", "7", ",", "2", "9", "4">>
        /\ (ipv6 /\ mask.bits = 128) =>
              /\ mask.ones \in 0..128
              /\ Field("Usable IP Addresses") = UsableV6Text(mask.ones)
              /\ mask.ones = 0 => Field("Usable IP Addresses") = <<"3", "4", "0", ",", "2", "8", "2", ",", "3", "6", "6", ",", "9", "2", "0", ",", "9", "3", "8", ",", "4", "6", "3", ",", "4", "6", "3", ",", "3", "7", "4", ",", "6", "0", "7", ",", "4", "3", "1", ",", "7", "6", "8", ",", "2", "1", "1", ",", "4", "5", "6">>

\* C4's case: the dual-stack program has reported the IPv6 block ::/0 with 2^128
\* usable addresses
C4_WholeV6Space ==
    /\ program = "dualstack"
    /\ input = <<":", ":", "/", "0">>
    /\ pc = "exited"
    /\ ipv6
    /\ mask = CIDRMask(0, 128)
    /\ Field("Usable IP Addresses") = <<"3", "4", "0", ",", "2", "8", "2", ",", "3", "6", "6", ",", "9", "2", "0", ",", "9", "3", "8", ",", "4", "6", "3", ",", "4", "6", "3", ",", "3", "7", "4", ",", "6", "0", "7", ",", "4", "3", "1", ",", "7", "6", "8", ",", "2", "1", "1", ",", "4", "5", "6">>

\* C5 (as amended): for the netmask m of p leading ones, netmask(parseMask(m))
\* writes m again for every p in 0..32, and interpretMask gives m and its
\* complement (the wildcard mask inverse() writes) the same prefix length for p in
\* 1..31; for p = 0 and p = 32 the complement is itself a netmask and is read as
\* /32 and /0.
C5_NetmaskWildcardEquivalence ==
    step = "reparsed" =>
        \A p \in 0..32 : word = NetmaskWord(p) =>
            /\ interp = Ok(CIDRMask(p, 32))
            /\ parsed = Ok(CIDRMask(p, 32))
            /\ shown.netmask = Dotted(NetmaskQuad(p))
            /\ shown.inverse = Dotted(WildcardQuad(p))
            /\ again.netmask = Ok(CIDRMask(p, 32))
            /\ again.inverse = again.complement
            /\ again.complement = Ok(CIDRMask(IF p = 0 THEN 32 ELSE IF p = 32 THEN 0 ELSE p, 32))

\* C5's case: 255.255.255.0 has been parsed, written as netmask and wildcard mask,
\* and both have been read as /24 again
C5_Slash24RoundTrip ==
    /\ step = "reparsed"
    /\ word = NetmaskWord(24)
    /\ shown.netmask = <<"2", "5", "5", ".", "2", "5", "5", ".", "2", "5", "5", ".", "0">>
    /\ shown.inverse = <<"0", ".", "0", ".", "0", ".", "2", "5", "5">>
    /\ again.complement = Ok(CIDRMask(24, 32))

\* C5 as the specification states it: the same prefix length for m and its
\* complement for every p in 0..32
C5_EquivalenceAllPrefixes ==
    step = "reparsed" =>
        \A p \in 0..32 : word = NetmaskWord(p) =>
            /\ shown.netmask = Dotted(NetmaskQuad(p))
            /\ again.complement.ok
            /\ again.complement.mask.ones = interp.mask.ones

\* C6: "/s" and a bare s are accepted exactly when s denotes an integer n in
\* 0..32 (IPv4-only program) or 0..128 (dual-stack program); the mask is then /n,
\* prefix() writes "/n", and in the dual-stack program the mask has 128 bits when
\* n > 32 or -6 was given and 32 bits otherwise; every other s is refused with an
\* invalid-prefix-length diagnostic.
C6_PrefixLengthRoundTrip ==
    (pc # "switch" /\ PrefixArg) =>
        LET width == IF program = "ipv4only" THEN 32 ELSE 128
            v6 == program = "dualstack" /\ (six \/ \E n \in 33..128 : Denotes(PrefixText, n))
        IN IF \E n \in 0..width : Denotes(PrefixText, n)
           THEN \A n \in 0..width : Denotes(PrefixText, n) =>
                   /\ pc \in {"report", "range", "exited"}
                   /\ exit \in {0 - 1, 0}
                   /\ stderr = <<>>
                   /\ mask = CIDRMask(n, IF v6 THEN 128 ELSE 32)
                   /\ ipv6 = v6
                   /\ prefix(mask) = <<"/">> \o FmtDec(n)
                   /\ pc = "exited" => ReportedAll /\ Field(IF v6 THEN "Prefix" ELSE "CIDR") = <<"/">> \o FmtDec(n)
           ELSE /\ Refused
                /\ stderr[1] \in {ErrPrefix, IF program = "ipv4only" THEN ErrPrefixRange32 ELSE ErrPrefixRange128}
                /\ mask = NoMask

\* C6's case: the dual-stack program, without -6, has read the bare argument 33
\* as the IPv6 prefix length /33
C6_Bare33IsV6 ==
    /\ program = "dualstack"
    /\ ~six
    /\ input = <<"3", "3">>
    /\ pc = "exited"
    /\ mask = CIDRMask(33, 128)
    /\ Field("Prefix") = <<"/", "3", "3">>

\* C7: an argument of the dotted-quad mask form is accepted only if the whole of
\* it is four decimal groups in 0..255 with "." between them; every other one is
\* refused with the invalid-mask diagnostic.
C7_DottedQuadStrict ==
    (pc # "switch" /\ MaskArg) =>
        \/ StrictQuad(input)
        \/ Refused /\ stderr = <<ErrMask>>

\* where C7 fails: 255.255.255.0.0, five groups, has been reported as /24
C7_FiveGroupsAccepted ==
    /\ program = "ipv4only"
    /\ input = <<"2", "5", "5", ".", "2", "5", "5", ".", "2", "5", "5", ".", "0", ".", "0">>
    /\ pc = "exited"
    /\ exit = 0
    /\ mask = CIDRMask(24, 32)
    /\ Field("Netmask") = <<"2", "5", "5", ".", "2", "5", "5", ".", "2", "5", "5", ".", "0">>

\* C8: in the dual-stack program with -6, a dotted-quad mask, a hex mask or a CIDR
\* with a dotted IPv4 address is refused and nothing is reported.
C8_FamilyMismatch ==
    (program = "dualstack" /\ six /\ pc # "switch" /\ (MaskArg \/ HexMaskArg \/ V4CidrArg)) => Refused

\* where C8 fails: with -6, 10.0.0.0/24 has been reported with a 32-bit mask, the
\* IPv6 usable count and 16-byte addresses
C8_MixedReport ==
    /\ program = "dualstack"
    /\ six
    /\ input = <<"1", "0", ".", "0", ".", "0", ".", "0", "/", "2", "4">>
    /\ pc = "exited"
    /\ exit = 0
    /\ mask = CIDRMask(24, 32)
    /\ Field("Usable IP Addresses") = <<"2", "5", "6">>
    /\ Field("First Usable IP Address") = <<":", ":", "a", "0", "0", ":", "1">>
    /\ Field("Last Usable IP Address") = <<":", ":", "a", "0", "0", ":", "f", "e">>

\* C9: a run never panics, and it ends either with the whole report and exit
\* code 0 or with one line of diagnostic, nothing printed and exit code 1.
C9_TwoOutcomes ==
    /\ pc # "panicked"
    /\ pc = "exited" => ReportedAll \/ Refused

\* where C9 fails: the IPv4-only program has printed the head of the report of
\* ::/33 and then panicked in netmask()
C9_ReportCutOff ==
    /\ program = "ipv4only"
    /\ input = <<":", ":", "/", "3", "3">>
    /\ pc = "panicked"
    /\ exit = 2
    /\ stderr = <<PanicShift>>
    /\ Len(stdout) > 0
    /\ stdout[Len(stdout)] = Line("CIDR", <<"/", "3", "3">>)

\* C10: without -6, "/p", a bare p, the dotted netmask of p and its 0x hex form
\* give the same mask /p and the same report for every p in 0..32; a 0x argument
\* that is not 10 characters long is refused with the hex-length diagnostic.
C10_InputFormsAgree ==
    /\ (pc \in {"exited", "panicked"} /\ ~six) =>
          \A p \in 0..32 : input \in {SlashArg(p), BareArg(p), Dotted(NetmaskQuad(p)), HexArg(NetmaskQuad(p))} =>
              /\ ReportedAll
              /\ mask = CIDRMask(p, 32)
              /\ stdout = MaskReport(p)
    /\ (pc # "switch" /\ HexMaskArg /\ Len(input) # 10) => Refused /\ stderr = <<ErrHexLen>>

\* C10's case: 0xffffff00 has been reported as /24 is
C10_HexSlash24 ==
    /\ program = "ipv4only"
    /\ input = <<"0", "x", "f", "f", "f", "f", "f", "f", "0", "0">>
    /\ pc = "exited"
    /\ mask = CIDRMask(24, 32)
    /\ stdout = MaskReport(24)
    /\ Field("Netmask") = <<"2", "5", "5", ".", "2", "5", "5", ".", "2", "5", "5", ".", "0">>

====
